---------------------------- MODULE Spec2Model ----------------------------
(***************************************************************************)
(* The prompt deployment pipeline of scripts/process_prompt.py:            *)
(* main discovers the prompt configurations, and process_prompt_file takes *)
(* each through load, render, inference, local save and S3 upload.         *)
(*                                                                         *)
(* Text is a sequence of one-character strings, so that str.replace and    *)
(* string concatenation are computed and not assumed.  A path or an S3 key *)
(* is the sequence of its "/"-separated segments.  A Python dict is a      *)
(* function whose domain is the set of keys present; the `variables` dict, *)
(* whose iteration order the code depends on, is the sequence of its items.*)
(* An optional value (os.environ.get) is <<>> for None and <<v>> for v.    *)
(***************************************************************************)
EXTENDS Integers, Sequences, FiniteSets, TLC

VARIABLES
    \* what the run is given: the command line, the process environment and
    \* the listing of prompts/*.json; none is written by the program
    argv, environ, prompts_dir,
    \* main and process_prompt_file: position and locals
    pc, environment, prompt_files, file_index, config, template,
    rendered_prompt, generated_content, output_file, bucket, s3_key, exit_code,
    \* what the run does to the outside: the outputs/ directory, the S3
    \* objects and the console
    outputs, s3_objects, console,
    \* history: every stage executed, every backend call, save and upload
    trace, bedrock_calls, saves, uploads,
    \* a second run over the same inputs: which run this is, and what the
    \* first one did
    run, prev,
    \* render_template applied on its own
    r_pc, r_template, r_variables, r_result

inputVars == <<argv, environ, prompts_dir>>
localVars == <<environment, prompt_files, file_index, config, template,
               rendered_prompt, generated_content, output_file, bucket, s3_key>>
effectVars == <<outputs, s3_objects, console>>
historyVars == <<trace, bedrock_calls, saves, uploads>>
runVars == <<run, prev>>
renderVars == <<r_pc, r_template, r_variables, r_result>>
vars == <<inputVars, pc, exit_code, localVars, effectVars, historyVars, runVars,
          renderVars>>

----------------------------------------------------------------------------
(* Bounds *)

\* most files that prompts/*.json lists
MaxFiles == 2
\* longest template given to render_template on its own
MaxTemplateLen == 4

----------------------------------------------------------------------------
(* Text *)

None == <<>>
Some(v) == <<v>>

UpperCase == <<"A","B","C","D","E","F","G","H","I","J","K","L","M",
               "N","O","P","Q","R","S","T","U","V","W","X","Y","Z">>
LowerCase == <<"a","b","c","d","e","f","g","h","i","j","k","l","m",
               "n","o","p","q","r","s","t","u","v","w","x","y","z">>

LowerChar(c) ==
    IF \E k \in 1..Len(UpperCase) : UpperCase[k] = c
    THEN LowerCase[CHOOSE k \in 1..Len(UpperCase) : UpperCase[k] = c]
    ELSE c

\* str.lower()
LowerIdentity(s) == s
Lower(s) == [k \in 1..Len(s) |-> LowerChar(s[k])]

Digits == <<"0","1","2","3","4","5","6","7","8","9">>

RECURSIVE NatStr(_)
NatStr(n) ==
    IF n < 10 THEN <<Digits[n + 1]>>
    ELSE NatStr(n \div 10) \o <<Digits[(n % 10) + 1]>>

\* str(value) of a JSON value: a string is itself, an integer its decimal form
Str(value) ==
    IF value.type = "str" THEN value.s
    ELSE IF value.n < 0 THEN <<"-">> \o NatStr(0 - value.n)
    ELSE NatStr(value.n)

\* a JSON string and a JSON integer
StrVal(s) == [type |-> "str", s |-> s, n |-> 0]
IntVal(n) == [type |-> "int", s |-> <<>>, n |-> n]

RECURSIVE ReplaceFirstOnly(_, _, _)
ReplaceFirstOnly(s, old, new) ==
    IF Len(s) < Len(old) THEN s
    ELSE IF SubSeq(s, 1, Len(old)) = old
         THEN new \o SubSeq(s, Len(old) + 1, Len(s))
         ELSE <<Head(s)>> \o ReplaceFirstOnly(Tail(s), old, new)

RECURSIVE Replace(_, _, _)
\* str.replace(old, new) for a non-empty old: every non-overlapping
\* occurrence, leftmost first
Replace(s, old, new) ==
    IF Len(s) < Len(old) THEN s
    ELSE IF SubSeq(s, 1, Len(old)) = old
         THEN new \o Replace(SubSeq(s, Len(old) + 1, Len(s)), old, new)
         ELSE <<Head(s)>> \o Replace(Tail(s), old, new)

PlaceholderBare(key) == key
\* f"{{{key}}}"
Placeholder(key) == <<"{">> \o key \o <<"}">>

RECURSIVE render_template(_, _)
\* one str.replace per item of variables, in the dict's iteration order, each
\* applied to the result of the one before
render_template(tmpl, variables) ==
    IF variables = <<>> THEN tmpl
    ELSE render_template(
             Replace(tmpl, Placeholder(Head(variables).key),
                     Str(Head(variables).value)),
             Tail(variables))

----------------------------------------------------------------------------
(* What the program finds on disk and behind its two services *)

BETA == <<"b","e","t","a">>
PROD == <<"p","r","o","d">>

\* the command lines tried: no argument, the two tiers, a tier in capitals,
\* and a word that is no tier
ArgvChoices ==
    { <<"process_prompt.py">>,
      <<"process_prompt.py", BETA>>,
      <<"process_prompt.py", PROD>>,
      <<"process_prompt.py", <<"B","E","T","A">> >>,
      <<"process_prompt.py", <<"d","e","v">> >> }

\* the values S3_BUCKET_BETA and S3_BUCKET_PROD may hold when set
BucketValues == {"", "site-a", "site-b"}
BucketVars == {"S3_BUCKET_BETA", "S3_BUCKET_PROD"}
\* the process environment: each variable unset or set
EnvChoices == UNION { [S -> BucketValues] : S \in SUBSET BucketVars }

\* os.environ.get(name)
Getenv(name) == IF name \in DOMAIN environ THEN Some(environ[name]) ELSE None

EmptyDict == <<>>

\* prompt_templates/: the text of each template file
TemplateDir ==
    [name \in {"a.txt", "b.txt"} |->
        IF name = "a.txt" THEN <<"H","i"," ","{","n","}">>
        ELSE <<"{","n","}","{","m","}">>]

Welcome ==
    [template |-> "a.txt",
     variables |-> <<[key |-> <<"n">>, value |-> StrVal(<<"B","o","b">>)]>>,
     instruction |-> <<"S","u","m">>,
     model_params |-> EmptyDict,
     output_file |-> "out.html"]

Promo ==
    [template |-> "b.txt",
     variables |-> <<[key |-> <<"n">>, value |-> StrVal(<<"{","m","}">>)],
                     [key |-> <<"m">>, value |-> IntVal(7)]>>,
     instruction |-> <<"A","d">>,
     model_params |-> [max_tokens |-> 100, temperature |-> 2],
     output_file |-> "out.html"]

About ==
    [template |-> "a.txt",
     variables |-> <<>>,
     instruction |-> <<"S","u","m">>,
     model_params |-> [max_tokens |-> 2000],
     output_file |-> "about.html"]

NoOutputFile ==
    [template |-> "a.txt",
     variables |-> <<[key |-> <<"n">>, value |-> StrVal(<<"B","o","b">>)]>>,
     instruction |-> <<"S","u","m">>,
     model_params |-> EmptyDict]

NoTemplate ==
    [variables |-> <<>>,
     instruction |-> <<"S","u","m">>,
     model_params |-> EmptyDict,
     output_file |-> "lost.html"]

NoVariables ==
    [template |-> "a.txt",
     instruction |-> <<"S","u","m">>,
     model_params |-> EmptyDict,
     output_file |-> "lost.html"]

NoInstruction ==
    [template |-> "a.txt",
     variables |-> <<>>,
     model_params |-> EmptyDict,
     output_file |-> "lost.html"]

NoModelParams ==
    [template |-> "a.txt",
     variables |-> <<>>,
     instruction |-> <<"S","u","m">>,
     output_file |-> "lost.html"]

NoTemplateFile ==
    [template |-> "missing.txt",
     variables |-> <<>>,
     instruction |-> <<"S","u","m">>,
     model_params |-> EmptyDict,
     output_file |-> "lost.html"]

\* prompts/: what json.load makes of each file; broken.json is not JSON, and
\* the no*.json files each lack one key (notmpl.json names a template that
\* does not exist)
PromptsDir ==
    [f \in {"welcome.json", "promo.json", "about.json", "broken.json",
            "nofile.json", "notmpl.json", "nokey1.json", "nokey2.json",
            "nokey3.json", "nokey4.json"} |->
        CASE f = "welcome.json" -> [ok |-> TRUE, doc |-> Welcome]
          [] f = "nokey1.json" -> [ok |-> TRUE, doc |-> NoTemplate]
          [] f = "nokey2.json" -> [ok |-> TRUE, doc |-> NoVariables]
          [] f = "nokey3.json" -> [ok |-> TRUE, doc |-> NoInstruction]
          [] f = "nokey4.json" -> [ok |-> TRUE, doc |-> NoModelParams]
          [] f = "promo.json" -> [ok |-> TRUE, doc |-> Promo]
          [] f = "about.json" -> [ok |-> TRUE, doc |-> About]
          [] f = "nofile.json" -> [ok |-> TRUE, doc |-> NoOutputFile]
          [] f = "notmpl.json" -> [ok |-> TRUE, doc |-> NoTemplateFile]
          [] OTHER -> [ok |-> FALSE, doc |-> EmptyDict]]

\* what prompts_dir.glob('*.json') may list: any files of the directory, in
\* any order, each once
Listings ==
    { s \in UNION { [1..n -> DOMAIN PromptsDir] : n \in 0..MaxFiles } :
        \A a, b \in DOMAIN s : a # b => s[a] # s[b] }

\* the texts the model may generate
GeneratedTexts == { <<"o","k">>, <<"n","o">> }

\* how bedrock.invoke_model and the parsing of its response may end
BedrockOutcomes ==
    { [result |-> "text", text |-> t] : t \in GeneratedTexts }
    \cup { [result |-> "call_failed", text |-> <<>>],
           [result |-> "malformed", text |-> <<>>] }

\* how save_output's mkdir, open and write may end: written is what the file
\* holds when the write fails after open has truncated it
DiskOutcomes(content) ==
    { [result |-> "ok", written |-> content],
      [result |-> "open_failed", written |-> <<>>] }
    \cup { [result |-> "write_failed", written |-> SubSeq(content, 1, k)] :
             k \in 0..(Len(content) - 1) }

\* how s3.upload_file may end
S3Outcomes == {"ok", "failed"}

----------------------------------------------------------------------------
(* The pure parts of the pipeline *)

DefaultMaxTokens == 2000
\* the default temperature 0.7, in tenths
DefaultTemperatureTenths == 7

DictGetDefault(d, key, default) == default
\* dict.get(key, default)
DictGet(d, key, default) == IF key \in DOMAIN d THEN d[key] ELSE default

\* "\n\nContent to transform:\n"
Separator ==
    <<"\n","\n","C","o","n","t","e","n","t"," ","t","o"," ",
      "t","r","a","n","s","f","o","r","m",":","\n">>

FullPromptByTier(instruction, prompt) ==
    IF environment = PROD THEN instruction \o Separator \o prompt
    ELSE instruction \o prompt
\* f"{instruction}\n\nContent to transform:\n{prompt}"
FullPrompt(instruction, prompt) == instruction \o Separator \o prompt

\* the request body invoke_bedrock builds
RequestBody(prompt, instruction, model_params) ==
    [max_tokens |-> DictGet(model_params, "max_tokens", DefaultMaxTokens),
     temperature |-> DictGet(model_params, "temperature",
                             DefaultTemperatureTenths),
     content |-> FullPrompt(instruction, prompt)]

\* Path(local_dir) / filename, with local_dir = 'outputs'
OutputPath(filename) == <<"outputs", filename>>

WriteFileAlone(files, path, content) == (path :> content)
WriteAppend(files, path, content) ==
    (path :> (IF path \in DOMAIN files THEN files[path] ELSE <<>>) \o content)
        @@ files
\* open(path, 'w') and f.write(content): the file holds content alone
WriteFile(files, path, content) == (path :> content) @@ files

ValidEnvironmentAny(env) == TRUE
\* environment in ['beta', 'prod']
ValidEnvironment(env) == env \in {BETA, PROD}

BucketVarProd(env) == "S3_BUCKET_PROD"
\* the variable process_prompt_file reads the bucket from
BucketVar(env) == IF env = BETA THEN "S3_BUCKET_BETA" ELSE "S3_BUCKET_PROD"

\* f"beta/outputs/{output_file}" or f"prod/outputs/{output_file}"
S3Key(env, filename) ==
    IF env = BETA THEN <<"beta", "outputs", filename>>
    ELSE <<"prod", "outputs", filename>>

TruthyAlways(b) == TRUE
\* `if bucket:` -- None and the empty string are false
Truthy(b) == b # None /\ b # Some("")

EmptyListingNever(files) == FALSE
\* `if not prompt_files:`
EmptyListing(files) == files = <<>>

UploadSwallows == FALSE
\* upload_to_s3's handler ends in a bare `raise`: the exception goes on to
\* the caller
UploadReraises == TRUE

StageAfterNeverReturns(stage) ==
    CASE stage = "open" -> "load_template"
      [] stage = "load_template" -> "render"
      [] stage = "render" -> "invoke"
      [] stage = "invoke" -> "save"
      [] stage = "save" -> "publish"
      [] stage = "publish" -> "blocked"
StageAfterSkipsInference(stage) ==
    CASE stage = "open" -> "load_template"
      [] stage = "load_template" -> "render"
      [] stage = "render" -> "save"
      [] stage = "invoke" -> "save"
      [] stage = "save" -> "publish"
      [] stage = "publish" -> "for"
\* the statement process_prompt_file goes on with when a stage has returned:
\* the body is straight-line code, lines 84-118, and its end hands control
\* back to main's loop
StageAfter(stage) ==
    CASE stage = "open" -> "load_template"
      [] stage = "load_template" -> "render"
      [] stage = "render" -> "invoke"
      [] stage = "invoke" -> "save"
      [] stage = "save" -> "publish"
      [] stage = "publish" -> "for"

ExhaustedEarly(i, files) == i >= 1
\* `for prompt_file in prompt_files:` has no file left after i of them
Exhausted(i, files) == i >= Len(files)

ReadFileEmpty(files, path) == <<>>
\* the bytes s3.upload_file reads from the local file
ReadFile(files, path) == files[path]

ExceptionTargetContinue == "for"
\* where `except Exception` in main leaves the run: sys.exit(1)
ExceptionTarget == "exited"

----------------------------------------------------------------------------
(* The run *)

NoFiles == <<>>
NoPrev ==
    [environment |-> None, trace |-> <<>>, bedrock_calls |-> <<>>,
     saves |-> <<>>, uploads |-> <<>>, outputs |-> NoFiles,
     exit_code |-> None]

\* the locals, the effects and the history before main starts
Fresh ==
    /\ exit_code = None
    /\ environment = None
    /\ prompt_files = <<>>
    /\ file_index = 0
    /\ config = EmptyDict
    /\ template = <<>>
    /\ rendered_prompt = <<>>
    /\ generated_content = <<>>
    /\ output_file = <<>>
    /\ bucket = None
    /\ s3_key = <<>>
    /\ outputs = NoFiles
    /\ s3_objects = NoFiles
    /\ console = <<>>
    /\ trace = <<>>
    /\ bedrock_calls = <<>>
    /\ saves = <<>>
    /\ uploads = <<>>

\* the state main starts in
Start == pc = "main" /\ Fresh

RenderOff ==
    /\ r_pc = "off"
    /\ r_template = <<>>
    /\ r_variables = <<>>
    /\ r_result = <<>>

Init ==
    /\ argv \in ArgvChoices
    /\ environ \in EnvChoices
    /\ prompts_dir \in Listings
    /\ Start
    /\ run = 1
    /\ prev = NoPrev
    /\ RenderOff

\* a line printed: the message and the prompt file it names, if any
Say(msg, file) == <<msg, file>>

\* the stage op of the file at file_index has been entered
Log(op) == trace' = Append(trace, [op |-> op, pos |-> file_index])

\* an exception leaves process_prompt_file, after it has printed `said`:
\* main's handler prints the error and exits with status 1
Raise(said) ==
    /\ console' = console \o said \o
                      <<Say("Error processing", prompt_files[file_index])>>
    /\ pc' = ExceptionTarget
    /\ exit_code' = IF ExceptionTarget = "exited" THEN Some(1) ELSE exit_code

\* the services answer a second run over the same inputs as they did the first
Entry(log) == CHOOSE e \in { log[k] : k \in DOMAIN log } : e.pos = file_index
Replayed(log) == run = 2 /\ \E k \in DOMAIN log : log[k].pos = file_index

BedrockAnswers ==
    IF Replayed(prev.bedrock_calls)
    THEN {Entry(prev.bedrock_calls).outcome}
    ELSE BedrockOutcomes

DiskAnswers(content) ==
    IF Replayed(prev.saves) /\ Entry(prev.saves).content = content
    THEN {Entry(prev.saves).outcome}
    ELSE DiskOutcomes(content)

\* main, lines 121-128
ParseArgs ==
    /\ pc = "main"
    /\ \/ /\ Len(argv) < 2
          /\ console' = Append(console,
                Say("Usage: python process_prompt.py <beta|prod>", ""))
          /\ pc' = "exited"
          /\ exit_code' = Some(1)
          /\ UNCHANGED environment
       \/ /\ Len(argv) >= 2
          /\ ~ValidEnvironment(Lower(argv[2]))
          /\ environment' = Lower(argv[2])
          /\ console' = Append(console,
                Say("Environment must be 'beta' or 'prod'", ""))
          /\ pc' = "exited"
          /\ exit_code' = Some(1)
       \/ /\ Len(argv) >= 2
          /\ ValidEnvironment(Lower(argv[2]))
          /\ environment' = Lower(argv[2])
          /\ pc' = "discover"
          /\ UNCHANGED <<console, exit_code>>
    /\ UNCHANGED <<inputVars, prompt_files, file_index, config, template,
                   rendered_prompt, generated_content, output_file, bucket,
                   s3_key, outputs, s3_objects, historyVars, runVars,
                   renderVars>>

\* main, lines 130-139
Discover ==
    /\ pc = "discover"
    /\ prompt_files' = prompts_dir
    /\ \/ /\ EmptyListing(prompts_dir)
          /\ console' = Append(console,
                Say("No prompt files found in prompts/ directory", ""))
          /\ pc' = "exited"
          /\ exit_code' = Some(1)
       \/ /\ ~EmptyListing(prompts_dir)
          /\ console' = Append(console, Say("Starting prompt processing", ""))
          /\ pc' = "for"
          /\ UNCHANGED exit_code
    /\ UNCHANGED <<inputVars, environment, file_index, config, template,
                   rendered_prompt, generated_content, output_file, bucket,
                   s3_key, outputs, s3_objects, historyVars, runVars,
                   renderVars>>

\* main, line 142: the next file, and the call of process_prompt_file with
\* fresh locals
ForNext ==
    /\ pc = "for"
    /\ ~Exhausted(file_index, prompt_files)
    /\ file_index' = file_index + 1
    /\ config' = EmptyDict
    /\ template' = <<>>
    /\ rendered_prompt' = <<>>
    /\ generated_content' = <<>>
    /\ output_file' = <<>>
    /\ bucket' = None
    /\ s3_key' = <<>>
    /\ console' = Append(console,
          Say("Processing", prompt_files[file_index + 1]))
    /\ pc' = "open"
    /\ UNCHANGED <<inputVars, exit_code, environment, prompt_files, outputs,
                   s3_objects, historyVars, runVars, renderVars>>

\* main, line 149: the list is exhausted and main returns
ForDone ==
    /\ pc = "for"
    /\ Exhausted(file_index, prompt_files)
    /\ console' = Append(console, Say("All prompts processed successfully", ""))
    /\ pc' = "done"
    /\ exit_code' = Some(0)
    /\ UNCHANGED <<inputVars, localVars, outputs, s3_objects, historyVars,
                   runVars, renderVars>>

\* process_prompt_file, lines 84-85
LoadConfig ==
    /\ pc = "open"
    /\ Log("load")
    /\ LET parsed == PromptsDir[prompt_files[file_index]]
       IN  \/ /\ parsed.ok
              /\ config' = parsed.doc
              /\ pc' = StageAfter("open")
              /\ UNCHANGED <<console, exit_code>>
           \/ /\ ~parsed.ok
              /\ Raise(<<>>)
              /\ UNCHANGED config
    /\ UNCHANGED <<inputVars, environment, prompt_files, file_index, template,
                   rendered_prompt, generated_content, output_file, bucket,
                   s3_key, outputs, s3_objects, bedrock_calls, saves, uploads,
                   runVars, renderVars>>

\* process_prompt_file, line 88, and load_template
LoadTemplate ==
    /\ pc = "load_template"
    /\ \/ /\ "template" \notin DOMAIN config
          /\ Raise(<<>>)
          /\ UNCHANGED <<template, trace>>
       \/ /\ "template" \in DOMAIN config
          /\ config.template \notin DOMAIN TemplateDir
          /\ Log("template")
          /\ Raise(<<>>)
          /\ UNCHANGED template
       \/ /\ "template" \in DOMAIN config
          /\ config.template \in DOMAIN TemplateDir
          /\ Log("template")
          /\ template' = TemplateDir[config.template]
          /\ pc' = StageAfter("load_template")
          /\ UNCHANGED <<console, exit_code>>
    /\ UNCHANGED <<inputVars, environment, prompt_files, file_index, config,
                   rendered_prompt, generated_content, output_file, bucket,
                   s3_key, outputs, s3_objects, bedrock_calls, saves, uploads,
                   runVars, renderVars>>

\* process_prompt_file, lines 89-92
Render ==
    /\ pc = "render"
    /\ \/ /\ "variables" \notin DOMAIN config
          /\ Raise(<<>>)
          /\ UNCHANGED <<rendered_prompt, trace>>
       \/ /\ "variables" \in DOMAIN config
          /\ Log("render")
          /\ rendered_prompt' = render_template(template, config.variables)
          /\ console' = console \o <<Say("Template", ""), Say("Variables", "")>>
          /\ pc' = StageAfter("render")
          /\ UNCHANGED exit_code
    /\ UNCHANGED <<inputVars, environment, prompt_files, file_index, config,
                   template, generated_content, output_file, bucket, s3_key,
                   outputs, s3_objects, bedrock_calls, saves, uploads,
                   runVars, renderVars>>

AttemptsWithRetry(call) ==
    IF call.outcome.result = "text" THEN <<call>> ELSE <<call, call>>
\* the calls of bedrock.invoke_model one invoke_bedrock makes: lines 42-45
\* are straight-line code, one call whatever its outcome
Attempts(call) == <<call>>

\* process_prompt_file, lines 95-100, and invoke_bedrock
Invoke ==
    /\ pc = "invoke"
    /\ \/ /\ \/ "instruction" \notin DOMAIN config
             \/ "model_params" \notin DOMAIN config
          /\ Raise(<<Say("Invoking Bedrock", "")>>)
          /\ UNCHANGED <<generated_content, trace, bedrock_calls>>
       \/ /\ "instruction" \in DOMAIN config
          /\ "model_params" \in DOMAIN config
          /\ Log("invoke")
          /\ \E answer \in BedrockAnswers :
                /\ bedrock_calls' = bedrock_calls \o
                      Attempts([pos |-> file_index,
                                body |-> RequestBody(rendered_prompt,
                                                     config.instruction,
                                                     config.model_params),
                                outcome |-> answer])
                /\ \/ /\ answer.result = "text"
                      /\ generated_content' = answer.text
                      /\ console' = Append(console, Say("Invoking Bedrock", ""))
                      /\ pc' = StageAfter("invoke")
                      /\ UNCHANGED exit_code
                   \/ /\ answer.result # "text"
                      /\ Raise(<<Say("Invoking Bedrock", "")>>)
                      /\ UNCHANGED generated_content
    /\ UNCHANGED <<inputVars, environment, prompt_files, file_index, config,
                   template, rendered_prompt, output_file, bucket, s3_key,
                   outputs, s3_objects, saves, uploads, runVars, renderVars>>

\* process_prompt_file, line 103, and save_output
Save ==
    /\ pc = "save"
    /\ \/ /\ "output_file" \notin DOMAIN config
          /\ Raise(<<>>)
          /\ UNCHANGED <<output_file, outputs, trace, saves>>
       \/ /\ "output_file" \in DOMAIN config
          /\ Log("save")
          /\ \E answer \in DiskAnswers(generated_content) :
                LET path == OutputPath(config.output_file)
                IN  /\ saves' = Append(saves,
                          [pos |-> file_index, path |-> path,
                           content |-> generated_content,
                           outcome |-> answer])
                    /\ \/ /\ answer.result = "ok"
                          /\ outputs' = WriteFile(outputs, path, generated_content)
                          /\ output_file' = path
                          /\ console' = Append(console, Say("Saved locally", ""))
                          /\ pc' = StageAfter("save")
                          /\ UNCHANGED exit_code
                       \/ /\ answer.result = "open_failed"
                          /\ Raise(<<>>)
                          /\ UNCHANGED <<output_file, outputs>>
                       \/ /\ answer.result = "write_failed"
                          /\ outputs' = WriteFile(outputs, path, answer.written)
                          /\ Raise(<<>>)
                          /\ UNCHANGED output_file
    /\ UNCHANGED <<inputVars, environment, prompt_files, file_index, config,
                   template, rendered_prompt, generated_content, bucket,
                   s3_key, s3_objects, bedrock_calls, uploads, runVars,
                   renderVars>>

\* process_prompt_file, lines 106-118, and upload_to_s3
Publish ==
    /\ pc = "publish"
    /\ bucket' = Getenv(BucketVar(environment))
    /\ s3_key' = S3Key(environment, config.output_file)
    /\ \/ /\ ~Truthy(bucket')
          /\ trace' = Append(trace, [op |-> "skip_upload", pos |-> file_index])
          /\ console' = console \o
                <<Say("No S3 bucket configured", ""),
                  Say("Successfully processed", prompt_files[file_index])>>
          /\ pc' = StageAfter("publish")
          /\ UNCHANGED <<exit_code, s3_objects, uploads>>
       \/ /\ Truthy(bucket')
          /\ Log("upload")
          /\ \E answer \in S3Outcomes :
                /\ uploads' = Append(uploads,
                      [pos |-> file_index, file |-> output_file,
                       bucket |-> bucket'[1], key |-> s3_key',
                       content_type |-> "text/html", outcome |-> answer])
                /\ \/ /\ answer = "ok"
                      /\ s3_objects' =
                            (<<bucket'[1], s3_key'>> :>
                                [body |-> ReadFile(outputs, output_file),
                                 content_type |-> "text/html"])
                            @@ s3_objects
                      /\ console' = console \o
                            <<Say("Uploaded to S3", ""),
                              Say("Successfully processed",
                                  prompt_files[file_index])>>
                      /\ pc' = StageAfter("publish")
                      /\ UNCHANGED exit_code
                   \/ /\ answer = "failed"
                      /\ UploadReraises
                      /\ Raise(<<Say("S3 upload failed", "")>>)
                      /\ UNCHANGED s3_objects
                   \/ /\ answer = "failed"
                      /\ ~UploadReraises
                      /\ console' = console \o
                            <<Say("S3 upload failed", ""),
                              Say("Successfully processed",
                                  prompt_files[file_index])>>
                      /\ pc' = StageAfter("publish")
                      /\ UNCHANGED <<exit_code, s3_objects>>
    /\ UNCHANGED <<inputVars, environment, prompt_files, file_index, config,
                   template, rendered_prompt, generated_content, output_file,
                   outputs, bedrock_calls, saves, runVars, renderVars>>

Next ==
    \/ ParseArgs
    \/ Discover
    \/ ForNext
    \/ ForDone
    \/ LoadConfig
    \/ LoadTemplate
    \/ Render
    \/ Invoke
    \/ Save
    \/ Publish

Spec == Init /\ [][Next]_vars

\* every call of the run returns or raises, and the single thread then goes on
\* with its next statement: a step that can be taken is taken
SpecLive == Spec /\ WF_vars(Next)

----------------------------------------------------------------------------
(* A second run over the same inputs, with the other tier *)

OtherTier(env) == IF env = BETA THEN PROD ELSE BETA

\* the run has ended; it is started again with the other tier, a clean
\* outputs/ directory and clean buckets, and what it did is kept in prev
Rerun ==
    /\ run = 1
    /\ pc \in {"done", "exited"}
    /\ environment \in {BETA, PROD}
    /\ run' = 2
    /\ prev' = [environment |-> environment, trace |-> trace,
                bedrock_calls |-> bedrock_calls, saves |-> saves,
                uploads |-> uploads, outputs |-> outputs,
                exit_code |-> exit_code]
    /\ argv' = <<argv[1], OtherTier(environment)>>
    /\ pc' = "main"
    /\ exit_code' = None
    /\ environment' = None
    /\ prompt_files' = <<>>
    /\ file_index' = 0
    /\ config' = EmptyDict
    /\ template' = <<>>
    /\ rendered_prompt' = <<>>
    /\ generated_content' = <<>>
    /\ output_file' = <<>>
    /\ bucket' = None
    /\ s3_key' = <<>>
    /\ outputs' = NoFiles
    /\ s3_objects' = NoFiles
    /\ console' = <<>>
    /\ trace' = <<>>
    /\ bedrock_calls' = <<>>
    /\ saves' = <<>>
    /\ uploads' = <<>>
    /\ UNCHANGED <<environ, prompts_dir, renderVars>>

NextTwoRuns == Next \/ Rerun

SpecTwoRuns == Init /\ [][NextTwoRuns]_vars

----------------------------------------------------------------------------
(* render_template on its own *)

TemplateChars == {"{", "}", "a", "b"}
TemplateKeys == { <<"a">>, <<"b">> }
TemplateValues ==
    { StrVal(<<>>), StrVal(<<"x">>), StrVal(<<"{","b","}">>),
      StrVal(<<"{","a","}">>), IntVal(12) }

Templates == UNION { [1..n -> TemplateChars] : n \in 0..MaxTemplateLen }

\* the dicts given: up to two items, in either order, no key twice
Mappings ==
    { m \in UNION { [1..n -> [key : TemplateKeys, value : TemplateValues]] :
                      n \in 0..2 } :
        \A a, b \in DOMAIN m : a # b => m[a].key # m[b].key }

InitRender ==
    /\ argv = <<"process_prompt.py">>
    /\ environ = <<>>
    /\ prompts_dir = <<>>
    /\ pc = "off"
    /\ Fresh
    /\ run = 1
    /\ prev = NoPrev
    /\ r_pc = "call"
    /\ r_template \in Templates
    /\ r_variables \in Mappings
    /\ r_result = <<>>

RenderCall ==
    /\ r_pc = "call"
    /\ r_result' = render_template(r_template, r_variables)
    /\ r_pc' = "returned"
    /\ UNCHANGED <<inputVars, pc, exit_code, localVars, effectVars,
                   historyVars, runVars, r_template, r_variables>>

NextRender == RenderCall

SpecRender == InitRender /\ [][NextRender]_vars

----------------------------------------------------------------------------
(* Vocabulary of the properties *)

Range(seq) == { seq[k] : k \in DOMAIN seq }

IsPrefix(p, s) == Len(p) <= Len(s) /\ SubSeq(s, 1, Len(p)) = p

\* the position of a file in the discovered list (each file is listed once)
PositionOf(file) == CHOOSE k \in DOMAIN prompt_files : prompt_files[k] = file

\* the positions whose processing main's handler reported as failed
FailedPositions ==
    { PositionOf(line[2]) : line \in { l \in Range(console) : l[1] = "Error processing" } }

\* the positions any stage of which has been executed
TouchedPositions ==
    { e.pos : e \in Range(trace) } \cup { c.pos : c \in Range(bedrock_calls) }
    \cup { w.pos : w \in Range(saves) } \cup { u.pos : u \in Range(uploads) }

\* s is the lower-case word up to the case of its letters
SameUpToCase(s, word) ==
    /\ Len(s) = Len(word)
    /\ \A k \in 1..Len(word) :
          \/ s[k] = word[k]
          \/ \E j \in 1..26 : LowerCase[j] = word[k] /\ UpperCase[j] = s[k]

\* the tier argument is given and is beta or prod up to letter case
TierAccepted ==
    /\ Len(argv) >= 2
    /\ \/ SameUpToCase(argv[2], <<"b","e","t","a">>)
       \/ SameUpToCase(argv[2], <<"p","r","o","d">>)

Ended == pc \in {"done", "exited"}

\* nothing of the pipeline has happened: no discovery, load, inference,
\* write or upload
NoPipelineWork ==
    /\ prompt_files = <<>>
    /\ trace = <<>>
    /\ bedrock_calls = <<>>
    /\ saves = <<>>
    /\ uploads = <<>>
    /\ outputs = NoFiles
    /\ s3_objects = NoFiles

----------------------------------------------------------------------------
(* C1: fail-fast ordering.  Once main's handler has reported the failure  *)
(* of the configuration at position i, no stage of a configuration at a   *)
(* later position has been executed (no load, no template, no render, no  *)
(* backend call, no save, no upload), and the run has ended with exit     *)
(* status 1.                                                              *)
C1_FailFast ==
    \A i \in FailedPositions :
        /\ \A j \in TouchedPositions : j <= i
        /\ file_index = i
        /\ pc = "exited"
        /\ exit_code = Some(1)

\* the first of two configurations failed and the second was left alone
C1_Witness ==
    /\ Len(prompt_files) = 2
    /\ FailedPositions = {1}
    /\ pc = "exited"

----------------------------------------------------------------------------
(* C2: the exit code.  The run exits 0 only if the tier argument was      *)
(* accepted, at least one configuration was discovered, and every         *)
(* discovered configuration was saved locally and then either uploaded    *)
(* or skipped with the "no bucket" warning because the tier's bucket is   *)
(* not configured, with no error reported; and a run that has ended       *)
(* exits 1 when the tier argument is missing or not accepted, when no     *)
(* configuration was found, or when a configuration failed.               *)
SavedAt(pos) ==
    \E w \in Range(saves) : w.pos = pos /\ w.outcome.result = "ok"

UploadedAt(pos) ==
    \E u \in Range(uploads) : u.pos = pos /\ u.outcome = "ok"

SkippedAt(pos) ==
    /\ [op |-> "skip_upload", pos |-> pos] \in Range(trace)
    /\ \A u \in Range(uploads) : u.pos # pos
    /\ LET name == IF environment = <<"b","e","t","a">>
                   THEN "S3_BUCKET_BETA" ELSE "S3_BUCKET_PROD"
       IN  name \notin DOMAIN environ \/ environ[name] = ""

SomeStageFailed ==
    \/ FailedPositions # {}
    \/ \E c \in Range(bedrock_calls) : c.outcome.result # "text"
    \/ \E w \in Range(saves) : w.outcome.result # "ok"
    \/ \E u \in Range(uploads) : u.outcome # "ok"

\* C2: exit status 0 only after a complete, error-free run; 1 for a refused
\* tier, an empty listing or a failed configuration
C2_ExitCode ==
    /\ exit_code = Some(0) =>
          /\ pc = "done"
          /\ TierAccepted
          /\ Len(prompts_dir) >= 1
          /\ prompt_files = prompts_dir
          /\ \A pos \in DOMAIN prompt_files :
                SavedAt(pos) /\ (UploadedAt(pos) \/ SkippedAt(pos))
          /\ ~SomeStageFailed
    /\ (Ended /\ (~TierAccepted \/ prompts_dir = <<>> \/ SomeStageFailed)) =>
          exit_code = Some(1)
    /\ Ended <=> exit_code # None

\* a run of two configurations, both saved and uploaded, that exits 0
C2_Witness ==
    /\ exit_code = Some(0)
    /\ Len(prompt_files) = 2
    /\ UploadedAt(1)
    /\ UploadedAt(2)

----------------------------------------------------------------------------
(* C3: the publisher's failure policy.  A step of the publish stage taken *)
(* with the tier's bucket variable unset makes no upload call, raises     *)
(* nothing and hands control back to the loop for the next configuration; *)
(* a step in which the upload call is made and fails prints "S3 upload    *)
(* failed", then the exception reaches main's handler and the run ends    *)
(* with exit status 1.                                                    *)
Last(seq) == seq[Len(seq)]

TierBucketVar ==
    IF environment = <<"b","e","t","a">> THEN "S3_BUCKET_BETA"
    ELSE "S3_BUCKET_PROD"

C3_SkipStep ==
    (pc = "publish" /\ TierBucketVar \notin DOMAIN environ) =>
        /\ uploads' = uploads
        /\ s3_objects' = s3_objects
        /\ outputs' = outputs
        /\ exit_code' = None
        /\ pc' = "for"
        /\ console' = console \o
              <<Say("No S3 bucket configured", ""),
                Say("Successfully processed", prompt_files[file_index])>>

C3_FailStep ==
    (pc = "publish" /\ uploads' # uploads /\ Last(uploads').outcome = "failed") =>
        /\ TierBucketVar \in DOMAIN environ
        /\ s3_objects' = s3_objects
        /\ console' = console \o
              <<Say("S3 upload failed", ""),
                Say("Error processing", prompt_files[file_index])>>
        /\ pc' = "exited"
        /\ exit_code' = Some(1)

\* C3: every step obeys both rules of the publisher: an unset bucket skips
\* the upload and goes on, a failed upload is reported and ends the run
C3_PublisherPolicy == [][C3_SkipStep /\ C3_FailStep]_vars

\* the bucket is unset, the first configuration was skipped without an
\* upload and the second one has been loaded
C3_Witness ==
    /\ TierBucketVar \notin DOMAIN environ
    /\ [op |-> "skip_upload", pos |-> 1] \in Range(trace)
    /\ [op |-> "load", pos |-> 2] \in Range(trace)
    /\ uploads = <<>>

----------------------------------------------------------------------------
(* C4: empty discovery.  When prompts/*.json lists nothing, the run ends  *)
(* at the discovery step with exit status 1: no file is written, no       *)
(* object uploaded and no backend call made.                              *)
C4_EmptyDiscovery ==
    (prompts_dir = <<>> /\ pc \notin {"main", "discover", "off"}) =>
        /\ pc = "exited"
        /\ exit_code = Some(1)
        /\ outputs = NoFiles
        /\ s3_objects = NoFiles
        /\ trace = <<>>
        /\ bedrock_calls = <<>>
        /\ saves = <<>>
        /\ uploads = <<>>

\* the tier was accepted, discovery found nothing and the run has ended
C4_Witness ==
    /\ prompts_dir = <<>>
    /\ environment = PROD
    /\ pc = "exited"
    /\ Last(console) = Say("No prompt files found in prompts/ directory", "")

----------------------------------------------------------------------------
(* C5 as stated: when the argument is missing or is anything but `beta`   *)
(* or `prod`, the run ends in main's argument check with exit status 1    *)
(* and a usage message, before any pipeline work.                         *)
UsageMessages ==
    { Say("Usage: python process_prompt.py <beta|prod>", ""),
      Say("Environment must be 'beta' or 'prod'", "") }

RejectedAtGate ==
    pc # "main" =>
        /\ pc = "exited"
        /\ exit_code = Some(1)
        /\ Len(console) = 1
        /\ console[1] \in UsageMessages
        /\ NoPipelineWork

\* C5 as stated: any argument other than beta or prod is refused at the gate
C5_Original ==
    (Len(argv) < 2 \/ argv[2] \notin { <<"b","e","t","a">>, <<"p","r","o","d">> }) =>
        RejectedAtGate

(* C5 as amended: the argument is compared after str.lower().  When it is *)
(* missing, or its lower-cased form is neither `beta` nor `prod`, the run *)
(* ends in the argument check with exit status 1 and a usage message      *)
(* before any pipeline work; an argument that is `beta` or `prod` up to   *)
(* letter case is accepted, and the run goes on as that tier.             *)
\* C5 as amended: the gate compares the lower-cased argument
C5_TierGate ==
    /\ ~TierAccepted => RejectedAtGate
    /\ (TierAccepted /\ pc # "main") =>
          /\ environment \in { <<"b","e","t","a">>, <<"p","r","o","d">> }
          /\ SameUpToCase(argv[2], environment)
          /\ ~(pc = "exited" /\ prompt_files = <<>> /\ prompts_dir # <<>>)

\* `dev` was refused at the gate
C5_Witness ==
    /\ Len(argv) = 2
    /\ argv[2] = <<"d","e","v">>
    /\ pc = "exited"
    /\ console = <<Say("Environment must be 'beta' or 'prod'", "")>>

----------------------------------------------------------------------------
(* C6: environment routing.  The run has one environment, the lower-cased *)
(* tier argument, from the argument check to its end; every upload call   *)
(* of the run names the bucket held by that tier's variable and the key   *)
(* <tier>/outputs/<output_file> of the configuration it is made for, and  *)
(* so does every object stored; no upload uses the other tier's key       *)
(* prefix, nor the other tier's bucket unless both variables name the     *)
(* same bucket.                                                           *)
TierName == IF environment = <<"b","e","t","a">> THEN "beta" ELSE "prod"

OtherTierBucketVar ==
    IF environment = <<"b","e","t","a">> THEN "S3_BUCKET_PROD"
    ELSE "S3_BUCKET_BETA"

ConfiguredFile(pos) == PromptsDir[prompt_files[pos]].doc.output_file

\* C6: one environment per run, and every upload goes to that tier's bucket
\* under that tier's key
C6_Routing ==
    /\ (pc \notin {"main", "off"} /\ TierAccepted) =>
          /\ environment \in { <<"b","e","t","a">>, <<"p","r","o","d">> }
          /\ SameUpToCase(argv[2], environment)
    /\ \A u \in Range(uploads) :
          /\ environment \in { <<"b","e","t","a">>, <<"p","r","o","d">> }
          /\ TierBucketVar \in DOMAIN environ
          /\ u.bucket = environ[TierBucketVar]
          /\ u.key = <<TierName, "outputs", ConfiguredFile(u.pos)>>
          /\ u.file = <<"outputs", ConfiguredFile(u.pos)>>
          /\ (OtherTierBucketVar \in DOMAIN environ
              /\ environ[OtherTierBucketVar] # environ[TierBucketVar])
                => u.bucket # environ[OtherTierBucketVar]
    /\ \A o \in DOMAIN s3_objects :
          \E u \in Range(uploads) :
              u.outcome = "ok" /\ o = <<u.bucket, u.key>>

\* a beta run, with different buckets for the two tiers, that has uploaded
\* two configurations
C6_Witness ==
    /\ environment = BETA
    /\ BucketVars \subseteq DOMAIN environ
    /\ environ["S3_BUCKET_BETA"] # environ["S3_BUCKET_PROD"]
    /\ Len(uploads) = 2
    /\ UploadedAt(1)
    /\ UploadedAt(2)

----------------------------------------------------------------------------
(* C7: environment non-interference, for a run with one tier followed by  *)
(* a run with the other over the same prompts/ listing, templates,        *)
(* process environment and service answers.  Compared are the stages      *)
(* before publication that each run executed, in order (load, template,   *)
(* render, invoke, save, each with its position), the requests sent to    *)
(* the backend (position, combined text, max_tokens, temperature; the     *)
(* rendered prompt is part of the combined text) and the local writes     *)
(* (position, path, content).                                             *)
IsLocalStage(e) == e.op \in {"load", "template", "render", "invoke", "save"}
Stages(tr) == SelectSeq(tr, IsLocalStage)
Requests(calls) == [k \in DOMAIN calls |-> [pos |-> calls[k].pos, body |-> calls[k].body]]
Writes(ws) ==
    [k \in DOMAIN ws |-> [pos |-> ws[k].pos, path |-> ws[k].path,
                          content |-> ws[k].content]]

BothRunsEnded == run = 2 /\ Ended

(* C7 as stated: the two runs executed the same stages, sent the same     *)
(* requests and wrote the same local artifacts.                           *)
\* C7 as stated: a beta run and a prod run do the same up to the upload's
\* destination
C7_Original ==
    BothRunsEnded =>
        /\ Stages(prev.trace) = Stages(trace)
        /\ Requests(prev.bedrock_calls) = Requests(bedrock_calls)
        /\ Writes(prev.saves) = Writes(saves)
        /\ prev.outputs = outputs

(* C7 as amended: the two runs agree on every configuration both of them  *)
(* process -- the stages, requests and local writes of one run are a      *)
(* prefix of the other's -- and they differ in how far they get only when *)
(* the run that stops first was aborted by a failed upload, which the     *)
(* other run, with another bucket or none, did not suffer.                *)
Agree(a, b) == IsPrefix(a, b) \/ IsPrefix(b, a)

AbortedByUpload(tr, ups, code) ==
    /\ code = Some(1)
    /\ tr # <<>>
    /\ Last(tr).op = "upload"
    /\ ups # <<>>
    /\ Last(ups).outcome = "failed"

\* C7 as amended: the two runs agree wherever both get, and part ways only
\* at a failed upload
C7_NonInterference ==
    BothRunsEnded =>
        /\ Agree(Stages(prev.trace), Stages(trace))
        /\ Agree(Requests(prev.bedrock_calls), Requests(bedrock_calls))
        /\ Agree(Writes(prev.saves), Writes(saves))
        /\ Len(Stages(prev.trace)) < Len(Stages(trace)) =>
              AbortedByUpload(prev.trace, prev.uploads, prev.exit_code)
        /\ Len(Stages(trace)) < Len(Stages(prev.trace)) =>
              AbortedByUpload(trace, uploads, exit_code)
        /\ Len(Stages(trace)) = Len(Stages(prev.trace)) =>
              /\ Requests(prev.bedrock_calls) = Requests(bedrock_calls)
              /\ Writes(prev.saves) = Writes(saves)
              /\ prev.outputs = outputs

\* a beta run and a prod run of the same two configurations, both to the
\* end, each with its uploads
C7_Witness ==
    /\ BothRunsEnded
    /\ prev.environment = BETA
    /\ environment = PROD
    /\ prev.exit_code = Some(0)
    /\ exit_code = Some(0)
    /\ Len(bedrock_calls) = 2
    /\ Len(prev.uploads) = 2
    /\ Len(uploads) = 2

----------------------------------------------------------------------------
(* C8: render_template substitution.  In the result every occurrence, in  *)
(* the template, of the placeholder {k} of a key k of the mapping is      *)
(* replaced by the string form of the value of k, and everything else of  *)
(* the template -- the placeholders of absent keys included -- stands as  *)
(* it was, also when a substituted value holds placeholder text.  That is *)
(* the template read once from left to right, each placeholder of a       *)
(* present key giving way to its value and the values not read again.     *)
ItemsAt(tmpl, variables) ==
    { k \in DOMAIN variables : IsPrefix(Placeholder(variables[k].key), tmpl) }

RECURSIVE SubstitutedOnce(_, _)
SubstitutedOnce(tmpl, variables) ==
    IF tmpl = <<>> THEN <<>>
    ELSE IF ItemsAt(tmpl, variables) # {}
         THEN LET k == CHOOSE k \in ItemsAt(tmpl, variables) : TRUE
                  ph == Placeholder(variables[k].key)
              IN  Str(variables[k].value)
                  \o SubstitutedOnce(SubSeq(tmpl, Len(ph) + 1, Len(tmpl)),
                                     variables)
         ELSE <<Head(tmpl)>> \o SubstitutedOnce(Tail(tmpl), variables)

\* C8: the result of render_template is the template with each placeholder
\* of a present key replaced once by its value
C8_Substitution ==
    r_pc = "returned" => r_result = SubstitutedOnce(r_template, r_variables)

----------------------------------------------------------------------------
(* C9: a single inference attempt with the exact combined text.  For      *)
(* every configuration whose invoke stage was entered exactly one backend *)
(* call has been made; its text is the configuration's instruction, then  *)
(* "\n\nContent to transform:\n", then the template rendered with the     *)
(* configuration's variables; and a call that failed or whose response    *)
(* was malformed is the last call of the run: it is not repeated, the     *)
(* error reaches main's handler and the run ends with exit status 1.      *)
CallsAt(pos) == { k \in DOMAIN bedrock_calls : bedrock_calls[k].pos = pos }

ExpectedText(pos) ==
    LET doc == PromptsDir[prompt_files[pos]].doc
    IN  doc.instruction
        \o <<"\n","\n","C","o","n","t","e","n","t"," ","t","o"," ",
             "t","r","a","n","s","f","o","r","m",":","\n">>
        \o render_template(TemplateDir[doc.template], doc.variables)

\* C9: one backend call per configuration that reaches inference, with the
\* exact combined text, and no retry after a failure
C9_SingleAttempt ==
    /\ \A e \in Range(trace) :
          e.op = "invoke" => Cardinality(CallsAt(e.pos)) = 1
    /\ \A k \in DOMAIN bedrock_calls :
          LET call == bedrock_calls[k]
          IN  /\ [op |-> "invoke", pos |-> call.pos] \in Range(trace)
              /\ call.body.content = ExpectedText(call.pos)
              /\ call.outcome.result # "text" =>
                    /\ k = Len(bedrock_calls)
                    /\ file_index = call.pos
                    /\ pc = "exited"
                    /\ exit_code = Some(1)
                    /\ Last(console) =
                          Say("Error processing", prompt_files[call.pos])

\* the backend answered the first configuration and failed the second: two
\* calls in all, and the run has ended
C9_Witness ==
    /\ Len(bedrock_calls) = 2
    /\ bedrock_calls[1].outcome.result = "text"
    /\ bedrock_calls[2].outcome.result = "call_failed"
    /\ bedrock_calls[2].pos = 2
    /\ pc = "exited"

----------------------------------------------------------------------------
(* C10: persistence overwrites.  After any sequence of save_output calls  *)
(* every file of outputs/ holds what the most recent call that opened it  *)
(* wrote -- the whole content of that call when it returned -- so a       *)
(* second configuration with the same output_file leaves its content      *)
(* alone in the file, and a file is as the last call on its own name left *)
(* it whatever was written to other names since.  (A call whose write     *)
(* fails after open has truncated the file leaves the part written, and   *)
(* ends the run.)                                                         *)
OpenedSaves(path) ==
    { k \in DOMAIN saves :
        saves[k].path = path /\ saves[k].outcome.result # "open_failed" }

MaxOf(S) == CHOOSE k \in S : \A j \in S : j <= k

\* C10: each file of outputs/ holds what the most recent save_output call on
\* its name wrote
C10_Overwrite ==
    \A path \in DOMAIN outputs \cup { w.path : w \in Range(saves) } :
        IF OpenedSaves(path) = {}
        THEN path \notin DOMAIN outputs
        ELSE LET w == saves[MaxOf(OpenedSaves(path))]
             IN  /\ path \in DOMAIN outputs
                 /\ w.outcome.result = "ok" => outputs[path] = w.content
                 /\ w.outcome.result = "write_failed" =>
                       /\ outputs[path] = w.outcome.written
                       /\ IsPrefix(outputs[path], w.content)
                       /\ outputs[path] # w.content

\* two configurations with the same output_file, saved one after the other
\* with different contents: the file holds the second content
C10_Witness ==
    /\ Len(saves) = 2
    /\ saves[1].path = saves[2].path
    /\ saves[1].outcome.result = "ok"
    /\ saves[2].outcome.result = "ok"
    /\ saves[1].content # saves[2].content
    /\ outputs[saves[2].path] = saves[2].content

----------------------------------------------------------------------------
(* C11: default model parameters.  In every request sent to the backend   *)
(* max_tokens is the value the configuration's model_params gives under   *)
(* that key when the key is present, and 2000 when it is absent -- so it  *)
(* is 2000 exactly when the key is absent or present with the value 2000; *)
(* temperature is the value given when its key is present and 0.7 (seven  *)
(* tenths) when it is absent.                                             *)
ModelParamsAt(pos) == PromptsDir[prompt_files[pos]].doc.model_params

\* C11: each request carries the configured max_tokens and temperature, and
\* 2000 and 0.7 exactly for the keys that model_params lacks
C11_DefaultParams ==
    \A call \in Range(bedrock_calls) :
        LET mp == ModelParamsAt(call.pos)
        IN  /\ "max_tokens" \in DOMAIN mp => call.body.max_tokens = mp.max_tokens
            /\ "max_tokens" \notin DOMAIN mp => call.body.max_tokens = 2000
            /\ call.body.max_tokens = 2000 <=>
                  ("max_tokens" \notin DOMAIN mp \/ mp.max_tokens = 2000)
            /\ "temperature" \in DOMAIN mp =>
                  call.body.temperature = mp.temperature
            /\ "temperature" \notin DOMAIN mp => call.body.temperature = 7

\* two requests were sent: one for a configuration with both keys present
\* (100 and 0.2), one for a configuration with neither
C11_Witness ==
    /\ Len(bedrock_calls) = 2
    /\ \E a, b \in Range(bedrock_calls) :
          /\ DOMAIN ModelParamsAt(a.pos) = {"max_tokens", "temperature"}
          /\ a.body.max_tokens = 100
          /\ a.body.temperature = 2
          /\ DOMAIN ModelParamsAt(b.pos) = {}
          /\ b.body.max_tokens = 2000
          /\ b.body.temperature = 7

----------------------------------------------------------------------------
(* C12: rendering is the identity when nothing matches.  For a template t *)
(* and a mapping v such that the placeholder {k} of no key k of v occurs  *)
(* in t, render_template(t, v) is t.                                      *)
Occurs(sub, s) ==
    \E i \in 1..(Len(s) - Len(sub) + 1) : SubSeq(s, i, i + Len(sub) - 1) = sub

NoKeyOccurs(tmpl, variables) ==
    \A k \in DOMAIN variables :
        ~Occurs(<<"{">> \o variables[k].key \o <<"}">>, tmpl)

\* C12: render_template returns the template itself when it holds the
\* placeholder of no key of the mapping
C12_RenderIdentity ==
    (r_pc = "returned" /\ NoKeyOccurs(r_template, r_variables)) =>
        r_result = r_template

\* a template of braces and key letters, but no placeholder, was rendered
\* with a mapping of two keys and came back as it was
C12_Witness ==
    /\ r_pc = "returned"
    /\ r_template = <<"{", "a", "b", "}">>
    /\ Len(r_variables) = 2
    /\ NoKeyOccurs(r_template, r_variables)
    /\ r_result = r_template

----------------------------------------------------------------------------
(* C13: strictly sequential stage order.  The stages executed, in the     *)
(* order of their execution, start with the load of the first             *)
(* configuration; each stage is followed either by the next stage of the  *)
(* same configuration (load, template load and render, inference, local   *)
(* save, publication) or, when it is the publication, by the load of the  *)
(* next configuration; and every step of the run executes at most one     *)
(* stage, with at most one network call (backend or upload) and at most   *)
(* one file write, never both.                                            *)
StageRank(op) ==
    CASE op = "load" -> 1
      [] op = "template" -> 2
      [] op = "render" -> 3
      [] op = "invoke" -> 4
      [] op = "save" -> 5
      [] op \in {"upload", "skip_upload"} -> 6

InStageOrder ==
    /\ trace # <<>> => trace[1] = [op |-> "load", pos |-> 1]
    /\ \A k \in 1..(Len(trace) - 1) :
          \/ /\ trace[k + 1].pos = trace[k].pos
             /\ StageRank(trace[k + 1].op) = StageRank(trace[k].op) + 1
          \/ /\ trace[k + 1].pos = trace[k].pos + 1
             /\ StageRank(trace[k].op) = 6
             /\ StageRank(trace[k + 1].op) = 1
    /\ \A k \in DOMAIN bedrock_calls :
          \E j \in DOMAIN trace :
              trace[j] = [op |-> "invoke", pos |-> bedrock_calls[k].pos]
    /\ \A k \in DOMAIN saves :
          \E j \in DOMAIN trace :
              trace[j] = [op |-> "save", pos |-> saves[k].pos]
    /\ \A k \in DOMAIN uploads :
          \E j \in DOMAIN trace :
              trace[j] = [op |-> "upload", pos |-> uploads[k].pos]

NetworkCalls == Len(bedrock_calls) + Len(uploads)

OneCallAtATime ==
    /\ Len(trace') <= Len(trace) + 1
    /\ NetworkCalls' <= NetworkCalls + 1
    /\ Len(saves') <= Len(saves) + 1
    /\ (NetworkCalls' - NetworkCalls) + (Len(saves') - Len(saves)) <= 1
    /\ (NetworkCalls' # NetworkCalls \/ saves' # saves) =>
          /\ Len(trace') = Len(trace) + 1
          /\ Last(trace').pos = file_index
          /\ pc \in {"invoke", "save", "publish"}

\* C13: the stages run one after the other in the order load, render,
\* inference, save, publication, one configuration after the other, and no
\* step has more than one network call or file write
C13_Sequential == []InStageOrder /\ [][OneCallAtATime]_vars

\* two configurations went through all their stages, the second after the
\* first
C13_Witness ==
    /\ pc = "done"
    /\ Len(trace) = 12
    /\ trace[6] = [op |-> "upload", pos |-> 1]
    /\ trace[7] = [op |-> "load", pos |-> 2]
    /\ Len(bedrock_calls) = 2
    /\ Len(saves) = 2

----------------------------------------------------------------------------
(* C14: required keys validated at load time.  A configuration that lacks *)
(* one of the keys template, variables, instruction, model_params and     *)
(* output_file fails before anything is rendered, before any backend call *)
(* and before any file write is made for it.                              *)
RequiredKeys ==
    {"template", "variables", "instruction", "model_params", "output_file"}

LacksRequiredKey(pos) ==
    /\ PromptsDir[prompt_files[pos]].ok
    /\ ~(RequiredKeys \subseteq DOMAIN PromptsDir[prompt_files[pos]].doc)

\* C14: for a configuration that lacks a required key no render, no backend
\* call and no file write has taken place
C14_LoadTimeValidation ==
    \A pos \in DOMAIN prompt_files :
        LacksRequiredKey(pos) =>
            /\ \A e \in Range(trace) :
                  e.pos = pos => e.op \notin {"render", "invoke", "save"}
            /\ \A c \in Range(bedrock_calls) : c.pos # pos
            /\ \A w \in Range(saves) : w.pos # pos

----------------------------------------------------------------------------
(* C15: termination.  Whatever the listing and whatever the outcome of    *)
(* each external call, the run reaches one of its two terminal states --  *)
(* main returned (DONE) or sys.exit(1) (FAILED) -- and takes no step      *)
(* after that; and main returns only after the publication stage of the   *)
(* last configuration listed, with a backend call, a save and a           *)
(* publication for every one of them.                                     *)
DoneAfterLastPublish ==
    pc = "done" =>
        /\ prompt_files # <<>>
        /\ file_index = Len(prompt_files)
        /\ trace # <<>>
        /\ Last(trace).pos = Len(prompt_files)
        /\ Last(trace).op \in {"upload", "skip_upload"}
        /\ \A pos \in DOMAIN prompt_files :
              \E e \in Range(trace) :
                  e.pos = pos /\ e.op \in {"upload", "skip_upload"}

\* C15: every run ends in DONE or FAILED, does nothing afterwards, and ends
\* in DONE only after the last configuration's publication
C15_Termination ==
    /\ <>Ended
    /\ [][~Ended]_vars
    /\ []DoneAfterLastPublish

\* a run failed in the publication stage of its second configuration and
\* has ended
C15_Witness ==
    /\ pc = "exited"
    /\ file_index = 2
    /\ Len(uploads) = 2
    /\ uploads[2].outcome = "failed"
    /\ Last(trace) = [op |-> "upload", pos |-> 2]

----------------------------------------------------------------------------
(* C16: exactly-once processing in discovery order.  The files whose      *)
(* processing the run has started are, in order, the first files of the   *)
(* discovered list, each once; for each of them there is at most one      *)
(* load, one backend call, one local write and one upload; and when main  *)
(* has returned every discovered file was processed, with exactly one     *)
(* load, one backend call and one local write, and one upload or none.    *)
IsProcessingLine(line) == line[1] = "Processing"

\* the files named by the "Processing" lines, in the order printed
ProcessedFiles ==
    LET started == SelectSeq(console, IsProcessingLine)
    IN  [k \in DOMAIN started |-> started[k][2]]

LoadsAt(pos) == { k \in DOMAIN trace : trace[k] = [op |-> "load", pos |-> pos] }
WritesAt(pos) == { k \in DOMAIN saves : saves[k].pos = pos }
UploadsAt(pos) == { k \in DOMAIN uploads : uploads[k].pos = pos }
RequestsAt(pos) == { k \in DOMAIN bedrock_calls : bedrock_calls[k].pos = pos }

\* C16: no configuration is processed twice, the order is the order of
\* discovery, and a run that reaches its end has processed every one once
C16_ExactlyOnce ==
    /\ IsPrefix(ProcessedFiles, prompts_dir)
    /\ Len(ProcessedFiles) = file_index
    /\ \A pos \in 1..MaxFiles + 1 :
          /\ Cardinality(LoadsAt(pos)) <= 1
          /\ Cardinality(RequestsAt(pos)) <= 1
          /\ Cardinality(WritesAt(pos)) <= 1
          /\ Cardinality(UploadsAt(pos)) <= 1
          /\ pos > file_index =>
                LoadsAt(pos) \cup RequestsAt(pos) \cup WritesAt(pos)
                    \cup UploadsAt(pos) = {}
    /\ pc = "done" =>
          /\ ProcessedFiles = prompts_dir
          /\ \A pos \in DOMAIN prompts_dir :
                /\ Cardinality(LoadsAt(pos)) = 1
                /\ Cardinality(RequestsAt(pos)) = 1
                /\ Cardinality(WritesAt(pos)) = 1
                /\ saves[CHOOSE k \in WritesAt(pos) : TRUE].outcome.result = "ok"

\* main has returned after two configurations: the first one uploaded, the
\* second one processed after it
C16_Witness ==
    /\ pc = "done"
    /\ Len(prompts_dir) = 2
    /\ ProcessedFiles = prompts_dir
    /\ Len(bedrock_calls) = 2
    /\ Len(saves) = 2
    /\ Cardinality(UploadsAt(1)) = 1

----------------------------------------------------------------------------
(* C17: upload implies prior local persistence.  For every upload call    *)
(* made, successful or not, the same iteration has before it received the *)
(* generated text from the backend and written it with a save_output call *)
(* that returned; the file handed to the upload is the path that call     *)
(* returned; every object stored holds the text the backend returned in   *)
(* the iteration that uploaded it last; and no upload call is made for a  *)
(* configuration whose backend call or local write failed.                *)
IndexOf(op, pos) == CHOOSE k \in DOMAIN trace : trace[k] = [op |-> op, pos |-> pos]

PersistedBefore(u) ==
    /\ [op |-> "save", pos |-> u.pos] \in Range(trace)
    /\ [op |-> "upload", pos |-> u.pos] \in Range(trace)
    /\ IndexOf("save", u.pos) < IndexOf("upload", u.pos)
    /\ \E w \in Range(saves), c \in Range(bedrock_calls) :
          /\ w.pos = u.pos
          /\ c.pos = u.pos
          /\ c.outcome.result = "text"
          /\ w.outcome.result = "ok"
          /\ w.content = c.outcome.text
          /\ w.path = u.file
    /\ \A w \in Range(saves) : w.pos = u.pos => w.outcome.result = "ok"
    /\ \A c \in Range(bedrock_calls) : c.pos = u.pos => c.outcome.result = "text"

\* the last successful upload to the bucket and key of a stored object
LastUploadTo(o) ==
    uploads[MaxOf({ k \in DOMAIN uploads :
                      /\ uploads[k].outcome = "ok"
                      /\ <<uploads[k].bucket, uploads[k].key>> = o })]

TextReturnedAt(pos) ==
    (CHOOSE c \in Range(bedrock_calls) : c.pos = pos).outcome.text

\* C17: an upload is made only after the same iteration has saved the text
\* the backend returned, and what is uploaded is that file with that text
C17_UploadAfterSave ==
    /\ \A u \in Range(uploads) : PersistedBefore(u)
    /\ \A o \in DOMAIN s3_objects :
          s3_objects[o].body = TextReturnedAt(LastUploadTo(o).pos)
    /\ \A pos \in DOMAIN prompt_files :
          (\/ \E c \in Range(bedrock_calls) :
                 c.pos = pos /\ c.outcome.result # "text"
           \/ \E w \in Range(saves) : w.pos = pos /\ w.outcome.result # "ok")
            => /\ UploadsAt(pos) = {}
               /\ [op |-> "upload", pos |-> pos] \notin Range(trace)

\* two configurations with the same output_file and different generated
\* texts were uploaded one after the other
C17_Witness ==
    /\ Len(uploads) = 2
    /\ uploads[1].outcome = "ok"
    /\ uploads[2].outcome = "ok"
    /\ uploads[1].key = uploads[2].key
    /\ bedrock_calls[1].outcome.text # bedrock_calls[2].outcome.text
    /\ s3_objects[<<uploads[2].bucket, uploads[2].key>>].body
          = bedrock_calls[2].outcome.text

----------------------------------------------------------------------------
(* C18 as stated: when the run has failed at configuration i, the local   *)
(* artifact of every configuration before i holds the text written for    *)
(* that configuration and so does the object uploaded for it, and when    *)
(* the failure was in the publication of i the artifact of i holds the    *)
(* text written for i.                                                    *)
FailedAt(i) == pc = "exited" /\ FailedPositions = {i}

SaveAt(pos) == saves[CHOOSE k \in WritesAt(pos) : TRUE]
UploadAt(pos) == uploads[CHOOSE k \in UploadsAt(pos) : TRUE]

FailedInPublish(i) ==
    /\ FailedAt(i)
    /\ UploadsAt(i) # {}
    /\ UploadAt(i).outcome = "failed"

ArtifactKept(pos) ==
    /\ SaveAt(pos).path \in DOMAIN outputs
    /\ outputs[SaveAt(pos).path] = SaveAt(pos).content

ObjectKept(pos) ==
    UploadedAt(pos) =>
        /\ <<UploadAt(pos).bucket, UploadAt(pos).key>> \in DOMAIN s3_objects
        /\ s3_objects[<<UploadAt(pos).bucket, UploadAt(pos).key>>].body
              = SaveAt(pos).content

\* C18 as stated: after a failure at configuration i the artifacts and the
\* objects of the configurations before i are as they were made
C18_Original ==
    \A i \in DOMAIN prompt_files :
        /\ FailedAt(i) =>
              \A j \in 1..(i - 1) : ArtifactKept(j) /\ ObjectKept(j)
        /\ FailedInPublish(i) => ArtifactKept(i)

(* C18 as amended: the abort removes and reverts nothing.  The step that  *)
(* ends the run in failure leaves every stored object as it was and every *)
(* local file as it was, but for the file a failing write had opened.     *)
(* When the run has failed at configuration i, the artifact and the       *)
(* object of a configuration before i are still there, and hold the text  *)
(* made for that configuration unless a later configuration with the same *)
(* output_file has been saved or uploaded over it before the failure;     *)
(* when the failure was in the publication of i, the artifact of i holds  *)
(* the whole text written for i.                                          *)
OverwrittenLocally(j, i) ==
    \E k \in (j + 1)..i :
        /\ WritesAt(k) # {}
        /\ SaveAt(k).path = SaveAt(j).path
        /\ SaveAt(k).outcome.result # "open_failed"

OverwrittenRemotely(j, i) ==
    \E k \in (j + 1)..i : UploadedAt(k) /\ UploadAt(k).key = UploadAt(j).key

AfterFailure ==
    \A i \in DOMAIN prompt_files :
        /\ FailedAt(i) =>
              \A j \in 1..(i - 1) :
                  /\ SaveAt(j).outcome.result = "ok"
                  /\ SaveAt(j).path \in DOMAIN outputs
                  /\ ~OverwrittenLocally(j, i) => ArtifactKept(j)
                  /\ UploadedAt(j) =>
                        /\ <<UploadAt(j).bucket, UploadAt(j).key>>
                              \in DOMAIN s3_objects
                        /\ ~OverwrittenRemotely(j, i) => ObjectKept(j)
        /\ FailedInPublish(i) => ArtifactKept(i)

AbortStep ==
    (pc' = "exited" /\ pc \notin {"main", "discover"}) =>
        /\ s3_objects' = s3_objects
        /\ DOMAIN outputs \subseteq DOMAIN outputs'
        /\ \A path \in DOMAIN outputs :
              outputs'[path] # outputs[path] =>
                  /\ pc = "save"
                  /\ Last(saves').path = path
                  /\ Last(saves').outcome.result = "write_failed"

\* C18 as amended: a failure leaves what was written and uploaded before it,
\* except where a later configuration of the same output_file wrote over it
C18_NoRollback == []AfterFailure /\ [][AbortStep]_vars

\* the first configuration was saved and uploaded under one name, the
\* second under another name was saved and its upload failed
C18_Witness ==
    /\ FailedInPublish(2)
    /\ UploadedAt(1)
    /\ SaveAt(1).path # SaveAt(2).path
    /\ ArtifactKept(1)
    /\ ArtifactKept(2)
    /\ ObjectKept(1)

=============================================================================
